---------------------------- MODULE Spec2Model ----------------------------
(***************************************************************************)
(* Model of the iJump Go analyzer (goodends/ijump):                        *)
(*   - src/src/parser/goparser.go  : the extractor (parseDirectory)        *)
(*   - src/src/goAstParser.ts      : the aggregator queries                *)
(*       (getInterfaceMethods, getImplementations, getStructsInfo) and the *)
(*       resolver GoAstParser.checkInterfaceImplementations                *)
(*       and the result cache (parseGoFile, clearCache)                    *)
(*   - src/src/extension.ts        : the resolver of GoCodeParser          *)
(*                                                                         *)
(* Strings are modelled as sequences of one-character strings so that      *)
(* startsWith / endsWith / substring / '*' + name are computed, not        *)
(* looked up.                                                              *)
(***************************************************************************)
EXTENDS Integers, Sequences, FiniteSets, TLC

(***************************************************************************)
(* Bounds of the model                                                     *)
(***************************************************************************)
\* longest interface method list of the rate family
MaxMethods == 5
\* longest embedding chain of the chain family (wrappers above the base)
MaxDepth == 6

(***************************************************************************)
(* String helpers                                                          *)
(***************************************************************************)
StartsWith(s, p) == Len(s) >= Len(p) /\ SubSeq(s, 1, Len(p)) = p

EndsWith(s, p) == Len(s) >= Len(p) /\ SubSeq(s, Len(s) - Len(p) + 1, Len(s)) = p

\* JavaScript s.substring(1)
Substring1(s) == SubSeq(s, 2, Len(s))

STAR == <<"*">>

UU == <<"_", "_">>

\* the marker key '__struct_def__' that getImplementations stores
STRUCT_DEF == <<"_","_","s","t","r","u","c","t","_","d","e","f","_","_">>

Range(s) == {s[i] : i \in 1..Len(s)}

\* the position of the last "/" among the first k characters of p, or 0
RECURSIVE LastSlash(_, _)
LastSlash(p, k) ==
    IF k = 0 THEN 0 ELSE IF p[k] = "/" THEN k ELSE LastSlash(p, k - 1)

\* path.dirname
Dirname(p) ==
    LET k == LastSlash(p, Len(p))
    IN  IF k = 0 THEN <<".">> ELSE IF k = 1 THEN <<"/">> ELSE SubSeq(p, 1, k - 1)

\* filepath.Dir, of a path that is clean already
FilepathDir(p) == Dirname(p)

EmptyMap == [x \in {} |-> {}]

(***************************************************************************)
(* Names used by the inputs                                                *)
(***************************************************************************)
Letters == <<"a", "b", "c", "d", "e", "f", "g", "h">>

\* the i-th method name
Meth(i) == <<Letters[i]>>

\* the method list  Meth(1), ..., Meth(n)
MethList(n) == [i \in 1..n |-> Meth(i)]

MethSet(k) == {Meth(i) : i \in 1..k}

IfaceI == <<"I">>
IfaceJ == <<"J">>
\* an interface name that is never a key of interfaceMethodsMap
IfaceK == <<"K">>

StructA == <<"A">>
StructB == <<"B">>
StructW == <<"W">>
\* a receiver type whose name has the form __x__
StructU == <<"_", "_", "u", "_", "_">>

\* the d-th wrapper struct of a chain
Wrap(d) == <<"W", Letters[d]>>


(***************************************************************************)
(* The resolver: GoAstParser.checkInterfaceImplementations                 *)
(*                                                                         *)
(* interfaceMethodsMap : function  interface name -> sequence of methods   *)
(* structMethodsMap    : function  receiver key -> set of method-map keys  *)
(* structsMap          : [defined, entries], entries the Map's entries in  *)
(*                       insertion order, each [name, fields,              *)
(*                       implementsInterfaces]; a missing 'fields' or      *)
(*                       'implementsInterfaces' key is the empty sequence  *)
(* The resolver's locals are the record st = [ii, im, hn]:                 *)
(*   ii = implementedInterfaces, im = interfaceImplementations,            *)
(*   hn = hasNewImplementation                                             *)
(***************************************************************************)
MaxIterations == 5

\* a faulty addImplementation that overwrites the interface's set
AddImplementationOverwrite(st, interfaceName, structName) ==
    [st EXCEPT !.ii = @ \cup {interfaceName},
               !.im = IF interfaceName \in DOMAIN @
                      THEN [@ EXCEPT ![interfaceName] = {structName}]
                      ELSE @ @@ (interfaceName :> {structName})]

\* a faulty addImplementation that forgets the returned set
AddImplementationRelationOnly(st, interfaceName, structName) ==
    [st EXCEPT !.im = IF interfaceName \in DOMAIN @
                      THEN [@ EXCEPT ![interfaceName] = @ \cup {structName}]
                      ELSE @ @@ (interfaceName :> {structName})]

AddImplementation(st, interfaceName, structName) ==
    [st EXCEPT !.ii = @ \cup {interfaceName},
               !.im = IF interfaceName \in DOMAIN @
                      THEN [@ EXCEPT ![interfaceName] = @ \cup {structName}]
                      ELSE @ @@ (interfaceName :> {structName})]

\* addImplementation for every pair of a set (the pairs are independent)
RECURSIVE AddAll(_, _)
AddAll(st, pairs) ==
    IF pairs = {} THEN st
    ELSE LET p == CHOOSE q \in pairs : TRUE
         IN  AddAll(AddImplementation(st, p[1], p[2]), pairs \ {p})

\* ---- step 1: explicit declarations -------------------------------------
\* a faulty declaration step that does not look the interface up
DeclareOneUnchecked(st, imm, structName, interfaceName) ==
    AddImplementation(st, interfaceName, structName)

\* one name of a struct's implementsInterfaces list
DeclareOne(st, imm, structName, interfaceName) ==
    IF interfaceName \in DOMAIN imm
    THEN AddImplementation(st, interfaceName, structName)
    ELSE st

RECURSIVE DeclareAll(_, _, _, _)
DeclareAll(st, imm, structName, implementsInterfaces) ==
    IF implementsInterfaces = <<>> THEN st
    ELSE DeclareAll(DeclareOne(st, imm, structName, Head(implementsInterfaces)),
                    imm, structName, Tail(implementsInterfaces))

RECURSIVE ExplicitStep(_, _, _)
ExplicitStep(st, imm, entries) ==
    IF entries = <<>> THEN st
    ELSE ExplicitStep(DeclareAll(st, imm, Head(entries).name,
                                 Head(entries).implementsInterfaces),
                      imm, Tail(entries))

\* ---- step 2: method matching -------------------------------------------
\* an interface the matching loops skip without looking at any struct
SkipInterface(st, interfaceMethods, interfaceName) ==
    Len(interfaceMethods) = 0 \/ interfaceName \in st.ii

\* a receiver key the matching loop skips for this interface
SkipStruct(st, interfaceName, structName) ==
    \/ StartsWith(structName, UU) /\ EndsWith(structName, UU)
    \/ interfaceName \in DOMAIN st.im /\ structName \in st.im[interfaceName]

\* the keys of a method map that count as methods
StructMethodNames(methodKeys) == {m \in methodKeys : ~StartsWith(m, UU)}

ImplementedMethodCount(interfaceMethods, names) ==
    Cardinality({i \in 1..Len(interfaceMethods) : interfaceMethods[i] \in names})

\* the rate as the fraction <<numerator, denominator>>
ImplementationRate(interfaceMethods, names) ==
    IF Len(interfaceMethods) > 0
    THEN <<ImplementedMethodCount(interfaceMethods, names), Len(interfaceMethods)>>
    ELSE <<0, 1>>

\* the rule of the earlier version: rate >= 0.8 is accepted as well
HighMatch(rate) == 5 * rate[1] >= 4 * rate[2]

\* a faulty acceptance test that keeps the 0.8 threshold
PerfectOrHighMatch(rate) == rate[1] = rate[2] \/ HighMatch(rate)

\* perfectMatch: implementationRate === 1.0
PerfectMatch(rate) == rate[1] = rate[2]

\* a faulty matching step: "every method of the interface is a method of the
\* struct", which an interface without methods passes
MatchStepEveryMethod(st, imm, smm) ==
    LET todo == {i \in DOMAIN imm : i \notin st.ii}
        hits == {p \in todo \X DOMAIN smm :
                    /\ ~SkipStruct(st, p[1], p[2])
                    /\ Range(imm[p[1]]) \subseteq StructMethodNames(smm[p[2]])}
    IN  AddAll(st, hits)

MatchStep(st, imm, smm) ==
    LET todo == {i \in DOMAIN imm : ~SkipInterface(st, imm[i], i)}
        hits == {p \in todo \X DOMAIN smm :
                    /\ ~SkipStruct(st, p[1], p[2])
                    /\ PerfectMatch(ImplementationRate(imm[p[1]],
                                        StructMethodNames(smm[p[2]])))}
    IN  AddAll(st, hits)

\* ---- step 3: embedding closure -----------------------------------------
\* a faulty closure that looks at every field, embedded or named
ClosureFieldAnyField(st, structName, field) ==
    LET hits == {i \in DOMAIN st.im :
                    /\ field.type \in st.im[i] \/ i = field.type
                    /\ i \notin DOMAIN st.im \/ structName \notin st.im[i]}
        st1 == AddAll(st, hits \X {structName})
    IN  [st1 EXCEPT !.hn = @ \/ hits # {}]

\* a faulty closure that only knows the field type that is the interface
ClosureFieldInterfaceOnly(st, structName, field) ==
    IF ~field.embedded THEN st
    ELSE LET hits == {i \in DOMAIN st.im :
                        /\ i = field.type
                        /\ i \notin DOMAIN st.im \/ structName \notin st.im[i]}
             st1 == AddAll(st, hits \X {structName})
         IN  [st1 EXCEPT !.hn = @ \/ hits # {}]

\* a faulty closure that takes the type of an embedded field for an interface
\* whether or not the relation has an entry for it
ClosureFieldAnyType(st, structName, field) ==
    IF ~field.embedded THEN st
    ELSE LET hits == {i \in DOMAIN st.im \cup {field.type} :
                        /\ i = field.type \/ field.type \in st.im[i]
                        /\ i \notin DOMAIN st.im \/ structName \notin st.im[i]}
             st1 == AddAll(st, hits \X {structName})
         IN  [st1 EXCEPT !.hn = @ \/ hits # {}]

\* one field of one struct against every interface of interfaceImplementations
ClosureField(st, structName, field) ==
    IF ~field.embedded THEN st
    ELSE LET hits == {i \in DOMAIN st.im :
                        /\ field.type \in st.im[i] \/ i = field.type
                        /\ i \notin DOMAIN st.im \/ structName \notin st.im[i]}
             st1 == AddAll(st, hits \X {structName})
         IN  [st1 EXCEPT !.hn = @ \/ hits # {}]

RECURSIVE ClosureFields(_, _, _)
ClosureFields(st, structName, fields) ==
    IF fields = <<>> THEN st
    ELSE ClosureFields(ClosureField(st, structName, Head(fields)),
                       structName, Tail(fields))

RECURSIVE ClosureStructs(_, _)
ClosureStructs(st, entries) ==
    IF entries = <<>> THEN st
    ELSE ClosureStructs(ClosureFields(st, Head(entries).name, Head(entries).fields),
                        Tail(entries))

\* one iteration of the while loop
ClosurePassOf(st, entries) == ClosureStructs([st EXCEPT !.hn = FALSE], entries)

\* ---- step 4: pointer receivers -----------------------------------------
PointerReceivers(smm) ==
    {Substring1(r) : r \in {k \in DOMAIN smm : StartsWith(k, STAR)}}

AllStructMethods(smm, structName) ==
    (IF structName \in DOMAIN smm THEN StructMethodNames(smm[structName]) ELSE {})
    \cup (IF STAR \o structName \in DOMAIN smm
          THEN StructMethodNames(smm[STAR \o structName]) ELSE {})

PointerStep(st, imm, smm) ==
    LET todo == {i \in DOMAIN imm : ~SkipInterface(st, imm[i], i)}
        hits == {p \in todo \X PointerReceivers(smm) :
                    /\ p[2] \in DOMAIN smm \/ STAR \o p[2] \in DOMAIN smm
                    /\ PerfectMatch(ImplementationRate(imm[p[1]],
                                        AllStructMethods(smm, p[2])))}
    IN  AddAll(st, hits)

(***************************************************************************)
(* The regular-expression resolver: GoCodeParser.checkInterfaceImplementations *)
(* (extension.ts), on the same two maps; a method map is the set of its keys  *)
(***************************************************************************)
\* a faulty version without the test  interfaceMethods.length > 0
GoCodeParserCheckNoLength(imm, smm) ==
    {i \in DOMAIN imm : \E s \in DOMAIN smm : \A k \in 1..Len(imm[i]) : imm[i][k] \in smm[s]}

\* interfaceMethods.every(method => structMethods.has(method)) for some
\* struct, and interfaceMethods.length > 0
GoCodeParserCheck(imm, smm) ==
    {i \in DOMAIN imm :
        \E s \in DOMAIN smm :
            /\ \A k \in 1..Len(imm[i]) : imm[i][k] \in smm[s]
            /\ Len(imm[i]) > 0}

(***************************************************************************)
(* The extractor: goparser.go                                              *)
(*                                                                         *)
(* A source file is [parses, types, funcs, comments]:                      *)
(*   types    : the type declarations, [name, kind, elems], kind one of    *)
(*              "interface", "struct", "other"; elems the method/field     *)
(*              list, each [names, type]                                   *)
(*   funcs    : the function declarations, [hasRecv, recv, name]           *)
(*   comments : the comments, each [struct, iface] for a comment           *)
(*              `// ensure <struct> implements <iface>`                    *)
(* A type expression is [kind, pkg, name], kind one of "Ident",            *)
(* "StarIdent" (pointer to T), "Selector" (pkg.T), "Other".                *)
(* Line numbers and file paths of the facts are left out.                  *)
(***************************************************************************)
Ident(n) == [kind |-> "Ident", pkg |-> <<>>, name |-> n]

StarIdent(n) == [kind |-> "StarIdent", pkg |-> <<>>, name |-> n]

\* a faulty getTypeNameFromExpr that keeps the pointer marker in the name
GetTypeNameKeepStar(expr) ==
    CASE expr.kind = "Ident"     -> [name |-> expr.name, isPointer |-> FALSE]
      [] expr.kind = "StarIdent" -> [name |-> STAR \o expr.name, isPointer |-> TRUE]
      [] expr.kind = "Selector"  -> [name |-> expr.pkg \o <<".">> \o expr.name,
                                     isPointer |-> FALSE]
      [] OTHER                   -> [name |-> <<>>, isPointer |-> FALSE]

GetTypeNameFromExpr(expr) ==
    CASE expr.kind = "Ident"     -> [name |-> expr.name, isPointer |-> FALSE]
      [] expr.kind = "StarIdent" -> [name |-> expr.name, isPointer |-> TRUE]
      [] expr.kind = "Selector"  -> [name |-> expr.pkg \o <<".">> \o expr.name,
                                     isPointer |-> FALSE]
      [] OTHER                   -> [name |-> <<>>, isPointer |-> FALSE]

\* a faulty fold that lists the embedded interface among the methods
RECURSIVE InterfaceElemsFlatten(_, _)
InterfaceElemsFlatten(info, elems) ==
    IF elems = <<>> THEN info
    ELSE LET field == Head(elems)
             typeName == GetTypeNameFromExpr(field.type).name
             info1 == IF Len(field.names) > 0
                      THEN [info EXCEPT !.methods = @ \o field.names]
                      ELSE IF typeName # <<>>
                           THEN [info EXCEPT !.internalType = typeName,
                                             !.methods = Append(@, typeName)]
                           ELSE info
         IN  InterfaceElemsFlatten(info1, Tail(elems))

\* the interface's Methods.List, folded into an InterfaceInfo
RECURSIVE InterfaceElems(_, _)
InterfaceElems(info, elems) ==
    IF elems = <<>> THEN info
    ELSE LET field == Head(elems)
             typeName == GetTypeNameFromExpr(field.type).name
             info1 == IF Len(field.names) > 0
                      THEN [info EXCEPT !.methods = @ \o field.names]
                      ELSE IF typeName # <<>>
                           THEN [info EXCEPT !.internalType = typeName]
                           ELSE info
         IN  InterfaceElems(info1, Tail(elems))

\* the struct's Fields.List, folded into a StructInfo
RECURSIVE StructElems(_, _)
StructElems(info, elems) ==
    IF elems = <<>> THEN info
    ELSE LET field == Head(elems)
             t == GetTypeNameFromExpr(field.type)
             new == IF Len(field.names) = 0
                    THEN << [name |-> t.name, type |-> t.name,
                             embedded |-> TRUE, isPointer |-> t.isPointer] >>
                    ELSE [i \in 1..Len(field.names) |->
                            [name |-> field.names[i], type |-> t.name,
                             embedded |-> FALSE, isPointer |-> t.isPointer]]
         IN  StructElems([info EXCEPT !.fields = @ \o new], Tail(elems))

\* the GenDecl case of ast.Inspect over the type declarations of a file
RECURSIVE InspectTypes(_, _)
InspectTypes(pkgInfo, types) ==
    IF types = <<>> THEN pkgInfo
    ELSE LET typeSpec == Head(types)
             p1 == IF typeSpec.kind = "interface"
                   THEN [pkgInfo EXCEPT !.interfaces = Append(@,
                            InterfaceElems([name |-> typeSpec.name, methods |-> <<>>,
                                            internalType |-> <<>>], typeSpec.elems))]
                   ELSE pkgInfo
             p2 == IF typeSpec.kind = "struct"
                   THEN [p1 EXCEPT !.structs = Append(@,
                            StructElems([name |-> typeSpec.name, fields |-> <<>>],
                                        typeSpec.elems))]
                   ELSE p1
         IN  InspectTypes(p2, Tail(types))

\* the FuncDecl case of ast.Inspect over the function declarations of a file
RECURSIVE InspectFuncs(_, _)
InspectFuncs(pkgInfo, funcs) ==
    IF funcs = <<>> THEN pkgInfo
    ELSE LET decl == Head(funcs)
             t == GetTypeNameFromExpr(decl.recv)
             p1 == IF decl.hasRecv /\ t.name # <<>>
                   THEN [pkgInfo EXCEPT !.methods = Append(@,
                            [receiverType |-> t.name, methodName |-> decl.name,
                             isPointer |-> t.isPointer])]
                   ELSE pkgInfo
         IN  InspectFuncs(p1, Tail(funcs))

EmptyPackageInfo == [interfaces |-> <<>>, structs |-> <<>>, methods |-> <<>>]

\* a faulty loop over goFiles that gives up at the first file that fails
RECURSIVE ProcessFilesAbort(_, _, _)
ProcessFilesAbort(packages, dir, files) ==
    IF files = <<>> \/ ~Head(files).parses THEN packages
    ELSE LET file == Head(files)
             pkgInfo == IF dir \in DOMAIN packages THEN packages[dir]
                        ELSE EmptyPackageInfo
             updated == InspectFuncs(InspectTypes(pkgInfo, file.types), file.funcs)
         IN  ProcessFilesAbort([d \in DOMAIN packages \cup {dir} |->
                                   IF d = dir THEN updated ELSE packages[d]],
                               dir, Tail(files))

\* the loop over goFiles of processDir: packages is the result.Packages map,
\* keyed by the directory
RECURSIVE ProcessFiles(_, _, _)
ProcessFiles(packages, dir, files) ==
    IF files = <<>> THEN packages
    ELSE LET file == Head(files)
             pkgInfo == IF dir \in DOMAIN packages THEN packages[dir]
                        ELSE EmptyPackageInfo
             updated == InspectFuncs(InspectTypes(pkgInfo, file.types), file.funcs)
             packages1 == IF ~file.parses THEN packages
                          ELSE [d \in DOMAIN packages \cup {dir} |->
                                   IF d = dir THEN updated ELSE packages[d]]
         IN  ProcessFiles(packages1, dir, Tail(files))

\* filepath.Glob(filepath.Join(dir, "*.go")) on a file system, a function
\* from directories to the sequence of their .go files
Glob(fs, dir) == IF dir \in DOMAIN fs THEN fs[dir] ELSE <<>>

\* processDir: it returns nil on every path, so only the map is returned
ProcessDir(packages, fs, dir) == ProcessFiles(packages, dir, Glob(fs, dir))

\* parseDirectory(dirPath): the result and the error it returns
ParseDirectoryOf(fs, dirPath) ==
    LET main == ProcessDir(EmptyMap, fs, dirPath)
        parentDir == FilepathDir(dirPath)
        packages == IF DOMAIN main = {} /\ parentDir # dirPath
                    THEN ProcessDir(main, fs, parentDir)
                    ELSE main
    IN  [packages |-> packages, err |-> "nil"]

AnalyzeFile(fs, filePath) == ParseDirectoryOf(fs, FilepathDir(filePath))

\* the directory every modelled package lives in, and its parent
Dir == <<"d">>

ParentDir == FilepathDir(Dir)

\* the file the extractor is run on
RequestedFile == Dir \o <<"/", "x">>

(***************************************************************************)
(* The aggregator queries of GoAstParser                                   *)
(***************************************************************************)
\* Map.set on a Map kept as the sequence of its entries, keyed by .name
MapSet(entries, e) ==
    IF \E i \in 1..Len(entries) : entries[i].name = e.name
    THEN [i \in 1..Len(entries) |->
             IF entries[i].name = e.name THEN e ELSE entries[i]]
    ELSE Append(entries, e)

\* the packages of a result, in some order
RECURSIVE SetToSeq(_)
SetToSeq(S) ==
    IF S = {} THEN <<>>
    ELSE LET x == CHOOSE y \in S : TRUE IN <<x>> \o SetToSeq(S \ {x})

Packages(result) ==
    LET keys == SetToSeq(DOMAIN result.packages)
    IN  [i \in 1..Len(keys) |-> result.packages[keys[i]]]

RECURSIVE InterfaceMethodsOf(_, _)
InterfaceMethodsOf(map, interfaces) ==
    IF interfaces = <<>> THEN map
    ELSE LET iface == Head(interfaces)
         IN  InterfaceMethodsOf(
                 [n \in DOMAIN map \cup {iface.name} |->
                     IF n = iface.name THEN iface.methods ELSE map[n]],
                 Tail(interfaces))

RECURSIVE GetInterfaceMethodsOf(_, _)
GetInterfaceMethodsOf(map, pkgs) ==
    IF pkgs = <<>> THEN map
    ELSE GetInterfaceMethodsOf(InterfaceMethodsOf(map, Head(pkgs).interfaces),
                               Tail(pkgs))

GetInterfaceMethods(result) == GetInterfaceMethodsOf(EmptyMap, Packages(result))

\* structMethodsMap.get(key).set(methodKey, ...), creating the inner map
SetMethodKey(map, key, methodKey) ==
    [k \in DOMAIN map \cup {key} |->
        (IF k \in DOMAIN map THEN map[k] ELSE {})
        \cup (IF k = key THEN {methodKey} ELSE {})]

RECURSIVE MethodsInto(_, _)
MethodsInto(map, methods) ==
    IF methods = <<>> THEN map
    ELSE MethodsInto(SetMethodKey(map, Head(methods).receiverType,
                                  Head(methods).methodName),
                     Tail(methods))

RECURSIVE StructDefsInto(_, _)
StructDefsInto(map, structs) ==
    IF structs = <<>> THEN map
    ELSE StructDefsInto(SetMethodKey(map, Head(structs).name, STRUCT_DEF),
                        Tail(structs))

RECURSIVE GetImplementationsOf(_, _)
GetImplementationsOf(map, pkgs) ==
    IF pkgs = <<>> THEN map
    ELSE GetImplementationsOf(
             StructDefsInto(MethodsInto(map, Head(pkgs).methods), Head(pkgs).structs),
             Tail(pkgs))

GetImplementations(result) == GetImplementationsOf(EmptyMap, Packages(result))

\* the 'fields' Map of one struct, keyed by the field name
RECURSIVE FieldsMap(_, _)
FieldsMap(map, fields) ==
    IF fields = <<>> THEN map
    ELSE FieldsMap(MapSet(map, [name |-> Head(fields).name,
                                type |-> Head(fields).type,
                                embedded |-> Head(fields).embedded]),
                   Tail(fields))

RECURSIVE StructsInto(_, _)
StructsInto(entries, structs) ==
    IF structs = <<>> THEN entries
    ELSE StructsInto(MapSet(entries, [name |-> Head(structs).name,
                                      fields |-> FieldsMap(<<>>, Head(structs).fields),
                                      implementsInterfaces |-> <<>>]),
                     Tail(structs))

RECURSIVE StructsOfPackages(_, _)
StructsOfPackages(entries, pkgs) ==
    IF pkgs = <<>> THEN entries
    ELSE StructsOfPackages(StructsInto(entries, Head(pkgs).structs), Tail(pkgs))

\* the body is empty in the source: no comment is read, structsMap is unchanged
FindInterfaceImplementationMarkers(result, entries) == entries

GetStructsInfo(result) ==
    [defined |-> TRUE,
     entries |-> FindInterfaceImplementationMarkers(result,
                     StructsOfPackages(<<>>, Packages(result)))]

(***************************************************************************)
(* Inputs                                                                  *)
(***************************************************************************)
Emb(t) == [name |-> t, type |-> t, embedded |-> TRUE]

Named(n, t) == [name |-> n, type |-> t, embedded |-> FALSE]

SEntry(n, fields, decl) == [name |-> n, fields |-> fields, implementsInterfaces |-> decl]

Undefined == [defined |-> FALSE, entries |-> <<>>]

Defined(entries) == [defined |-> TRUE, entries |-> entries]

\* the entry of structMethodsMap under key k, when the option has one
Keyed(k, opt) == IF opt.present THEN k :> opt.keys ELSE EmptyMap

DirectInput(imm, smm, structs) ==
    [source |-> <<>>, imm |-> imm, smm |-> smm, structs |-> structs]

\* one interface of n methods, one receiver with the first k of them, and
\* possibly a second struct that carries a declaration
RateInputs ==
    { DirectInput(IfaceI :> MethList(n),
                  key :> (MethSet(k) \cup marker),
                  other) :
        n \in 0..MaxMethods, k \in 0..MaxMethods,
        key \in {StructA, StructU}, marker \in {{}, {STRUCT_DEF}},
        other \in {Undefined,
                   Defined(<<>>),
                   Defined(<<SEntry(StructB, <<>>, <<IfaceI>>)>>),
                   Defined(<<SEntry(StructB, <<>>, <<IfaceK>>)>>)} }

\* two structs A, B with every combination of methods, declaration and field
GraphMethodOptions ==
    { [present |-> FALSE, keys |-> {}],
      [present |-> TRUE, keys |-> {STRUCT_DEF}],
      [present |-> TRUE, keys |-> {STRUCT_DEF, Meth(1)}],
      [present |-> TRUE, keys |-> {Meth(1), Meth(2)}] }

GraphDeclOptions == { <<>>, <<IfaceI>>, <<IfaceJ>> }

GraphFieldOptions ==
    { <<>>, <<Emb(StructA)>>, <<Emb(StructB)>>, <<Emb(IfaceI)>>, <<Emb(IfaceJ)>>,
      <<Named(<<"x">>, StructA)>>, <<Named(<<"x">>, StructB)>>,
      <<Named(<<"x">>, IfaceI)>> }

GraphIfaceOptions ==
    { IfaceI :> MethList(1),
      (IfaceI :> MethList(1)) @@ (IfaceJ :> <<>>),
      (IfaceI :> MethList(1)) @@ (IfaceJ :> MethList(2)) }

GraphInputs ==
    { DirectInput(imm,
                  Keyed(StructA, ma) @@ Keyed(StructB, mb),
                  Defined(<<SEntry(StructA, fa, da), SEntry(StructB, fb, db)>>)) :
        imm \in GraphIfaceOptions,
        ma \in GraphMethodOptions, mb \in GraphMethodOptions,
        da \in GraphDeclOptions, db \in GraphDeclOptions,
        fa \in GraphFieldOptions, fb \in GraphFieldOptions }

\* a chain  W_d embeds W_(d-1) ... W_1 embeds A,  A satisfying I by its
\* methods, by a declaration, or by methods split over the keys A and *A;
\* the entries of structsMap in declaration order or reversed; optionally
\* closed to a cycle (W_1 also embeds W_d)
ChainEntry(i, d, base, cyclic) ==
    IF i = 0
    THEN SEntry(StructA, <<>>, IF base = "declared" THEN <<IfaceI>> ELSE <<>>)
    ELSE SEntry(Wrap(i),
                <<Emb(IF i = 1 THEN StructA ELSE Wrap(i - 1))>>
                \o (IF cyclic /\ i = 1 THEN <<Emb(Wrap(d))>> ELSE <<>>),
                <<>>)

ChainMethods(base) ==
    CASE base = "match"    -> StructA :> {Meth(1), Meth(2), STRUCT_DEF}
      [] base = "declared" -> StructA :> {STRUCT_DEF}
      [] base = "pointer"  -> (StructA :> {Meth(1), STRUCT_DEF})
                              @@ ((STAR \o StructA) :> {Meth(2)})

ChainInputs ==
    { DirectInput(IfaceI :> MethList(2),
                  ChainMethods(base),
                  Defined([j \in 1..(d + 1) |->
                             ChainEntry(IF reversed THEN d + 1 - j ELSE j - 1,
                                        d, base, cyclic)])) :
        d \in 1..MaxDepth, base \in {"match", "declared", "pointer"},
        reversed \in BOOLEAN, cyclic \in BOOLEAN }

\* methods of one receiver type split over the keys A and *A, with or
\* without a struct W that embeds A
PointerKeyOptions ==
    { [present |-> FALSE, keys |-> {}] }
    \cup { [present |-> TRUE, keys |-> ks] : ks \in SUBSET {Meth(1), Meth(2)} }

PointerInputs ==
    { DirectInput(IfaceI :> MethList(2),
                  Keyed(StructA, v) @@ Keyed(STAR \o StructA, q),
                  structs) :
        v \in PointerKeyOptions, q \in PointerKeyOptions,
        structs \in {Undefined,
                     Defined(<<SEntry(StructA, <<>>, <<>>)>>),
                     Defined(<<SEntry(StructW, <<Emb(StructA)>>, <<>>),
                               SEntry(StructA, <<>>, <<>>)>>)} }

\* one interface with one method, whose name is a letter or begins with one
\* or two underscores or is the marker key itself, and one struct that has
\* a method of that name, with or without a struct fact
UnderscoreNames ==
    { Meth(1), <<"_">> \o Meth(1), UU \o Meth(1), STRUCT_DEF }

MarkerInputs ==
    { DirectInput(IfaceI :> <<m>>,
                  StructA :> ({m} \cup marker),
                  structs) :
        m \in UnderscoreNames, marker \in {{}, {STRUCT_DEF}},
        structs \in {Undefined, Defined(<<SEntry(StructA, <<>>, <<>>)>>)} }

DirectInputs ==
    RateInputs \cup GraphInputs \cup ChainInputs \cup PointerInputs \cup MarkerInputs

\* Go packages for the pipeline  parseDirectory -> queries -> resolver:
\*   type I interface { a(); b() }      type E struct{}
\*     or  type I interface { a(); J; b() }  with  type J interface { c() }
\*   type F struct{}  with a and b each absent, on receiver F or on receiver *F
\*   type W struct{}  with no field, embedded F, embedded *F or a field x F
\*   optionally the comment  // ensure E implements I
\* in one file, or split over two files of which the first or the second may
\* fail to parse, or in one file that fails to parse
OtherExpr == [kind |-> "Other", pkg |-> <<>>, name |-> <<>>]

MethodElem(m) == [names |-> <<m>>, type |-> OtherExpr]

TypeDecl(n, kind, elems) == [name |-> n, kind |-> kind, elems |-> elems]

StructE == <<"E">>
StructF == <<"F">>

FuncDecl(recv, m) == [hasRecv |-> TRUE, recv |-> recv, name |-> m]

\* the declarations of method m for a receiver option
SourceFuncs(opt, m) ==
    CASE opt = "none"    -> <<>>
      [] opt = "value"   -> <<FuncDecl(Ident(StructF), m)>>
      [] opt = "pointer" -> <<FuncDecl(StarIdent(StructF), m)>>

SourceFieldOptions ==
    { <<>>,
      << [names |-> <<>>, type |-> Ident(StructF)] >>,
      << [names |-> <<>>, type |-> StarIdent(StructF)] >>,
      << [names |-> << <<"x">> >>, type |-> Ident(StructF)] >> }

SourceFile(parses, types, funcs, comments) ==
    [parses |-> parses, types |-> types, funcs |-> funcs, comments |-> comments]

SourceLayout(layout, types, funcs, comments) ==
    CASE layout = "one"    -> << SourceFile(TRUE, types, funcs, comments) >>
      [] layout = "two"    -> << SourceFile(TRUE, types, <<>>, comments),
                                 SourceFile(TRUE, <<>>, funcs, <<>>) >>
      [] layout = "broken" -> << SourceFile(TRUE, types, <<>>, comments),
                                 SourceFile(FALSE, <<>>, funcs, <<>>) >>
      [] layout = "brokenFirst" -> << SourceFile(FALSE, <<>>, funcs, <<>>),
                                      SourceFile(TRUE, types, <<>>, comments) >>
      [] layout = "allBroken" -> << SourceFile(FALSE, types, funcs, comments) >>

\* the embedded element  J  of an interface body
EmbeddedElem(n) == [names |-> <<>>, type |-> Ident(n)]

\* the type declarations of the interfaces, I with or without an embedded J
SourceInterfaces(embeds) ==
    IF embeds
    THEN << TypeDecl(IfaceI, "interface",
                     <<MethodElem(Meth(1)), EmbeddedElem(IfaceJ), MethodElem(Meth(2))>>),
            TypeDecl(IfaceJ, "interface", <<MethodElem(Meth(3))>>) >>
    ELSE << TypeDecl(IfaceI, "interface", <<MethodElem(Meth(1)), MethodElem(Meth(2))>>) >>

Sources ==
    { SourceLayout(layout,
                   SourceInterfaces(embeds)
                   \o << TypeDecl(StructE, "struct", <<>>),
                         TypeDecl(StructF, "struct", <<>>),
                         TypeDecl(StructW, "struct", wf) >>,
                   SourceFuncs(ra, Meth(1)) \o SourceFuncs(rb, Meth(2)),
                   comments) :
        layout \in {"one", "two", "broken", "brokenFirst", "allBroken"},
        embeds \in BOOLEAN,
        wf \in SourceFieldOptions,
        ra \in {"none", "value", "pointer"}, rb \in {"none", "value", "pointer"},
        comments \in {<<>>, << [struct |-> StructE, iface |-> IfaceI] >>} }

\* the parent of the analysed directory holds one file of another package:
\*   type P struct{}   func (P) a()   func (P) b()
StructP == <<"P">>

ParentFiles ==
    << SourceFile(TRUE, <<TypeDecl(StructP, "struct", <<>>)>>,
                  <<[hasRecv |-> TRUE, recv |-> Ident(StructP), name |-> Meth(1)],
                    [hasRecv |-> TRUE, recv |-> Ident(StructP), name |-> Meth(2)]>>,
                  <<>>) >>

\* the file system around the analysed directory
FileSystem(files) == (Dir :> files) @@ (ParentDir :> ParentFiles)

\* the extractor run on a file of the directory Dir that holds the given files
ParseDirectory(files) == AnalyzeFile(FileSystem(files), RequestedFile)

\* no extractor run
NoParse == [packages |-> EmptyMap, err |-> "nil"]

(***************************************************************************)
(* State                                                                   *)
(*   source              : the files of the analysed directory (<<>> when  *)
(*                         the resolver is called with given maps)         *)
(*   parsed              : what the extractor returned for that directory  *)
(*   interfaceMethodsMap, structMethodsMap, structsMap : the arguments of  *)
(*                         checkInterfaceImplementations                   *)
(*   implementedInterfaces, interfaceImplementations, hasNewImplementation,*)
(*   iterations          : its locals                                      *)
(*   pc                  : "extract", "explicit", "match", "closure",      *)
(*                         "pointer", "done"                               *)
(***************************************************************************)
VARIABLES source, parsed, interfaceMethodsMap, structMethodsMap, structsMap,
          implementedInterfaces, interfaceImplementations,
          hasNewImplementation, iterations, pc

(***************************************************************************)
(* State of the result cache of GoAstParser                                *)
(*   clock               : Date.now(), in ms                               *)
(*   isParserReady, parseCache, cacheTimes, fileCache, fileCacheTimes,     *)
(*   packageCache        : the fields of the object                        *)
(*   calls               : the parseGoFile calls that have not returned,   *)
(*                         in call order, each with its locals and position*)
(*   returned            : the call that returned in the last step, with   *)
(*                         its result and without its locals now and       *)
(*                         started (NoCall if none did)                    *)
(*   runs                : the number of extractor runs started so far     *)
(*   lastOp, lastStore, awaitedAtClear : a record of the operations, kept for *)
(*                         the properties only: the last operation if it   *)
(*                         was a clearCache, the last result stored per    *)
(*                         package since its last invalidation, the runs   *)
(*                         that were awaited at that invalidation          *)
(***************************************************************************)
VARIABLES clock, isParserReady, parseCache, cacheTimes, fileCache,
          fileCacheTimes, packageCache, calls, returned, runs,
          lastOp, lastStore, awaitedAtClear

cache == <<clock, isParserReady, parseCache, cacheTimes, fileCache,
           fileCacheTimes, packageCache, calls, returned, runs,
           lastOp, lastStore, awaitedAtClear>>

vars == <<source, parsed, interfaceMethodsMap, structMethodsMap, structsMap,
          implementedInterfaces, interfaceImplementations,
          hasNewImplementation, iterations, pc, cache>>

args == <<source, parsed, interfaceMethodsMap, structMethodsMap, structsMap>>

\* the resolver's locals as one record
Locals == [ii |-> implementedInterfaces, im |-> interfaceImplementations,
           hn |-> hasNewImplementation]

SetLocals(st) ==
    /\ implementedInterfaces' = st.ii
    /\ interfaceImplementations' = st.im
    /\ hasNewImplementation' = st.hn

InitLocals ==
    /\ implementedInterfaces = {}
    /\ interfaceImplementations = EmptyMap
    /\ hasNewImplementation = TRUE
    /\ iterations = 0

\* the resolver is called with maps built by a caller
InitDirect ==
    \E inp \in DirectInputs :
        /\ source = inp.source
        /\ parsed = NoParse
        /\ interfaceMethodsMap = inp.imm
        /\ structMethodsMap = inp.smm
        /\ structsMap = inp.structs
        /\ pc = "explicit"
        /\ InitLocals

\* the resolver is called with the maps the queries build from a parse
InitPipeline ==
    /\ source \in Sources
    /\ parsed = NoParse
    /\ interfaceMethodsMap = EmptyMap
    /\ structMethodsMap = EmptyMap
    /\ structsMap = Undefined
    /\ pc = "extract"
    /\ InitLocals

\* the argument of clearCache() and of clearCache('')
NoPath == <<>>

\* { packages: {} }
EmptyResult == [packages |-> {}, run |-> 0, started |-> 0]

\* no call returned
NoCall == [file |-> NoPath, now |-> 0, pc |-> "none", settled |-> "pending",
           result |-> EmptyResult, from |-> "none", run |-> 0, started |-> 0,
           afterClear |-> "no", dupOf |-> {}]

\* a new GoAstParser (the field initialisers) at time 0, no call made yet
CacheConstructed ==
    /\ clock = 0
    /\ isParserReady = FALSE
    /\ parseCache = EmptyMap
    /\ cacheTimes = EmptyMap
    /\ fileCache = EmptyMap
    /\ fileCacheTimes = EmptyMap
    /\ packageCache = EmptyMap
    /\ calls = <<>>
    /\ returned = NoCall
    /\ runs = 0
    /\ lastOp = [op |-> "other", file |-> <<>>]
    /\ lastStore = EmptyMap
    /\ awaitedAtClear = EmptyMap

Init == (InitDirect \/ InitPipeline) /\ CacheConstructed

\* parseDirectory, then getInterfaceMethods, getImplementations, getStructsInfo
Analyze ==
    /\ pc = "extract"
    /\ LET result == ParseDirectory(source)
       IN  /\ parsed' = result
           /\ interfaceMethodsMap' = GetInterfaceMethods(result)
           /\ structMethodsMap' = GetImplementations(result)
           /\ structsMap' = GetStructsInfo(result)
    /\ pc' = "explicit"
    /\ UNCHANGED <<source, implementedInterfaces, interfaceImplementations,
                   hasNewImplementation, iterations, cache>>

ExplicitDeclarations ==
    /\ pc = "explicit"
    /\ SetLocals(IF structsMap.defined
                 THEN ExplicitStep(Locals, interfaceMethodsMap, structsMap.entries)
                 ELSE Locals)
    /\ pc' = "match"
    /\ UNCHANGED <<args, iterations, cache>>

MethodMatching ==
    /\ pc = "match"
    /\ SetLocals(MatchStep(Locals, interfaceMethodsMap, structMethodsMap))
    /\ pc' = IF structsMap.defined THEN "closure" ELSE "pointer"
    /\ UNCHANGED <<args, iterations, cache>>

\* the mutant of LoopCondition: the loop without its iteration cap
LoopConditionUncapped(hn, it) == hn

\* while (hasNewImplementation && iterations < maxIterations)
LoopCondition(hn, it) == hn /\ it < MaxIterations

ClosurePass ==
    /\ pc = "closure"
    /\ LoopCondition(hasNewImplementation, iterations)
    /\ iterations' = iterations + 1
    /\ SetLocals(ClosurePassOf(Locals, structsMap.entries))
    /\ UNCHANGED <<args, pc, cache>>

ClosureExit ==
    /\ pc = "closure"
    /\ ~LoopCondition(hasNewImplementation, iterations)
    /\ pc' = "pointer"
    /\ UNCHANGED <<args, implementedInterfaces, interfaceImplementations,
                   hasNewImplementation, iterations, cache>>

PointerReceiverPass ==
    /\ pc = "pointer"
    /\ SetLocals(PointerStep(Locals, interfaceMethodsMap, structMethodsMap))
    /\ pc' = "done"
    /\ UNCHANGED <<args, iterations, cache>>

Next ==
    \/ Analyze
    \/ ExplicitDeclarations
    \/ MethodMatching
    \/ ClosurePass
    \/ ClosureExit
    \/ PointerReceiverPass

Spec == Init /\ [][Next]_vars

(***************************************************************************)
(* The result cache: parseGoFile and clearCache                            *)
(*                                                                         *)
(* A path is a sequence of characters.  A result is [packages, run,        *)
(* started]: packages the keys of result.packages, run and started the     *)
(* number and the start time of the extractor run that printed it (0 for   *)
(* the literal {packages: {}}).                                            *)
(***************************************************************************)
cacheTimeToLive == 300000

fileCacheTimeToLive == 30000

\* the parseGoFile calls that can be awaiting at one time, and the extractor
\* runs of one behaviour
MaxInFlight == 2

MaxRuns == 2

\* the instants at which something can happen: the construction, and the
\* package tier's time-to-live less a third of the file tier's, exactly,
\* and plus a third of the file tier's
Quantum == fileCacheTimeToLive \div 3

Instants == {0, cacheTimeToLive - Quantum, cacheTimeToLive,
             cacheTimeToLive + Quantum}

GetPackagePath(filePath) == Dirname(filePath)

\* two files of the package in directory p
Files == { <<"p", "/", "f">>, <<"p", "/", "g">> }

\* Map.prototype.set, .delete, and  .get(key) || 0
MapPut(m, k, v) == [x \in DOMAIN m \cup {k} |-> IF x = k THEN v ELSE m[x]]

MapDelete(m, k) == [x \in DOMAIN m \ {k} |-> m[x]]

TimeOf(times, k) == IF k \in DOMAIN times THEN times[k] ELSE 0

\* the cache fields of the object as one record
This == [parseCache |-> parseCache, cacheTimes |-> cacheTimes,
         fileCache |-> fileCache, fileCacheTimes |-> fileCacheTimes,
         packageCache |-> packageCache]

SetThis(c) ==
    /\ parseCache' = c.parseCache
    /\ cacheTimes' = c.cacheTimes
    /\ fileCache' = c.fileCache
    /\ fileCacheTimes' = c.fileCacheTimes
    /\ packageCache' = c.packageCache

\* ---- parseGoFile, up to its first await --------------------------------
FileTierHit(c, filePath, now) ==
    /\ filePath \in DOMAIN c.fileCache
    /\ now - TimeOf(c.fileCacheTimes, filePath) < fileCacheTimeToLive

PackageTierHit(c, cacheKey, now) ==
    /\ cacheKey \in DOMAIN c.parseCache
    /\ now - TimeOf(c.cacheTimes, cacheKey) < cacheTimeToLive

\* the cache lookup: the tier that answers, the result, the fields afterwards
Lookup(c, filePath, now) ==
    LET packagePath == GetPackagePath(filePath)
        c1 == [c EXCEPT !.packageCache = MapPut(@, filePath, packagePath)]
    IN  IF FileTierHit(c, filePath, now)
        THEN [from |-> "file", result |-> c.fileCache[filePath], this |-> c]
        ELSE IF PackageTierHit(c1, packagePath, now)
        THEN [from |-> "package", result |-> c1.parseCache[packagePath],
              this |-> [c1 EXCEPT
                          !.fileCache = MapPut(@, filePath, c1.parseCache[packagePath]),
                          !.fileCacheTimes = MapPut(@, filePath, now)]]
        ELSE [from |-> "none", result |-> EmptyResult, this |-> c1]

\* ---- ensureParserReady -------------------------------------------------
\* what ensureParserReady finds when the parser is not yet known to be ready:
\*   "binary"     a precompiled parser exists (source or output directory)
\*   "noGo"       no parser and `go version` fails
\*   "buildFails" `go build` fails
\*   "noOutput"   `go build` succeeds but leaves no file
\*   "built"      `go build` succeeds
\*   "throws"     an unexpected error inside the outer try
EnsureEnv == {"binary", "noGo", "buildFails", "noOutput", "built", "throws"}

EnsureParserReady(ready, env) ==
    IF ready \/ env \in {"binary", "built"}
    THEN [isParserReady |-> TRUE, returns |-> TRUE]
    ELSE [isParserReady |-> FALSE, returns |-> FALSE]

\* ---- the extractor process and its output ------------------------------
\* stdout: "garbage" (not JSON), "null" (the JSON null), "object" (a JSON
\* object without a packages field), "result" (an object with packages)
Stdout(kind, packages) == [kind |-> kind, packages |-> packages]

\* what execFile can settle to for a run on filePath; the extractor prints no
\* package, the package of the file's directory or, when no file of that
\* directory parses, the package of its parent
ExecOutcomes(filePath) ==
    { [exit |-> "error", stdout |-> Stdout("garbage", {})] }
    \cup { [exit |-> "ok", stdout |-> s] :
             s \in { Stdout("garbage", {}), Stdout("null", {}), Stdout("object", {}),
                     Stdout("result", {}),
                     Stdout("result", {GetPackagePath(filePath)}),
                     Stdout("result", {FilepathDir(GetPackagePath(filePath))}) } }

\* JSON.parse
JsonParse(stdout) ==
    IF stdout.kind = "garbage" THEN [threw |-> TRUE, value |-> stdout]
    ELSE [threw |-> FALSE, value |-> stdout]

\* how the promise of parseGoFile settles: resolved or rejected, with what
\* value, at which return statement ("notReady", "noFile", "invalid",
\* "jsonError", "execError", "parse"), and whether the caches were updated
Settle(kind, value, from, store) ==
    [settled |-> kind, value |-> value, from |-> from, store |-> store]

\* a faulty handler that lets the error of the parser process propagate
OnExecErrorRethrow(out) == Settle("rejected", EmptyResult, "execError", FALSE)

\* catch (execError): return { packages: {} }
OnExecError(out) == Settle("resolved", EmptyResult, "execError", FALSE)

\* catch (jsonError): return { packages: {} }
OnJsonError(out) == Settle("resolved", EmptyResult, "jsonError", FALSE)

\* the two early returns after  await this.ensureParserReady()
OnNotReady(ready, fileExists) ==
    Settle("resolved", EmptyResult, IF ~ready THEN "notReady" ELSE "noFile", FALSE)

\* a faulty continuation that caches a result whatever its package count
AfterExecStoreAlways(out, run, started) ==
    IF out.exit # "ok" THEN OnExecError(out)
    ELSE LET json == JsonParse(out.stdout)
         IN  IF json.threw THEN OnJsonError(out)
             ELSE IF json.value.kind # "result"
             THEN Settle("resolved", EmptyResult, "invalid", FALSE)
             ELSE Settle("resolved",
                         [packages |-> json.value.packages, run |-> run,
                          started |-> started],
                         "parse", TRUE)

\* the continuation of parseGoFile after  await execFile(parserBin, [filePath])
AfterExec(out, run, started) ==
    IF out.exit # "ok" THEN OnExecError(out)
    ELSE LET json == JsonParse(out.stdout)
         IN  IF json.threw THEN OnJsonError(out)
             ELSE IF json.value.kind # "result"
             THEN Settle("resolved", EmptyResult, "invalid", FALSE)
             ELSE Settle("resolved",
                         [packages |-> json.value.packages, run |-> run,
                          started |-> started],
                         "parse",
                         Cardinality(json.value.packages) > 0)

\* the two cache updates of a successful parse
Store(c, filePath, cacheKey, now, result) ==
    [c EXCEPT !.parseCache = MapPut(@, cacheKey, result),
              !.cacheTimes = MapPut(@, cacheKey, now),
              !.fileCache = MapPut(@, filePath, result),
              !.fileCacheTimes = MapPut(@, filePath, now)]

\* ---- clearCache --------------------------------------------------------
\* a faulty clearCache(f) that leaves the package tier alone
ClearCacheFileOnly(c, filePath) ==
    IF filePath # NoPath
    THEN [c EXCEPT !.fileCache = MapDelete(@, filePath),
                   !.fileCacheTimes = MapDelete(@, filePath)]
    ELSE [c EXCEPT !.fileCache = EmptyMap, !.fileCacheTimes = EmptyMap,
                   !.parseCache = EmptyMap, !.cacheTimes = EmptyMap]

\* a faulty clearCache() that only clears the package tier
ClearCachePackagesOnly(c, filePath) ==
    IF filePath # NoPath
    THEN LET packagePath == IF filePath \in DOMAIN c.packageCache
                            THEN c.packageCache[filePath]
                            ELSE GetPackagePath(filePath)
         IN  [c EXCEPT !.fileCache = MapDelete(@, filePath),
                       !.fileCacheTimes = MapDelete(@, filePath),
                       !.parseCache = MapDelete(@, packagePath),
                       !.cacheTimes = MapDelete(@, packagePath)]
    ELSE [c EXCEPT !.parseCache = EmptyMap, !.cacheTimes = EmptyMap]

ClearCacheOf(c, filePath) ==
    IF filePath # NoPath
    THEN LET packagePath == IF filePath \in DOMAIN c.packageCache
                            THEN c.packageCache[filePath]
                            ELSE GetPackagePath(filePath)
         IN  [c EXCEPT !.fileCache = MapDelete(@, filePath),
                       !.fileCacheTimes = MapDelete(@, filePath),
                       !.parseCache = MapDelete(@, packagePath),
                       !.cacheTimes = MapDelete(@, packagePath)]
    ELSE [c EXCEPT !.fileCache = EmptyMap, !.fileCacheTimes = EmptyMap,
                   !.parseCache = EmptyMap, !.cacheTimes = EmptyMap]

\* ---- the calls on the event loop ---------------------------------------
resolver == <<args, implementedInterfaces, interfaceImplementations,
              hasNewImplementation, iterations, pc>>

\* no resolver call is under way
ResolverIdle ==
    /\ source = <<>>
    /\ parsed = NoParse
    /\ interfaceMethodsMap = EmptyMap
    /\ structMethodsMap = EmptyMap
    /\ structsMap = Undefined
    /\ InitLocals
    /\ pc = "idle"

CacheInit == CacheConstructed /\ ResolverIdle

PackagePaths == {GetPackagePath(f) : f \in Files}

\* the sequence s without its k-th element
RemoveAt(s, k) == SubSeq(s, 1, k - 1) \o SubSeq(s, k + 1, Len(s))

\* the runs of the calls that are awaiting the extractor for filePath
AwaitingExec(filePath) ==
    {calls[k].run : k \in {j \in 1..Len(calls) :
                             calls[j].pc = "exec" /\ calls[j].file = filePath}}

\* the runs that are awaited for the files of a package
AwaitingExecIn(packagePath) ==
    UNION {AwaitingExec(f) : f \in {g \in Files : GetPackagePath(g) = packagePath}}

\* the calls that have not started their extractor run yet
AwaitingEnsure == {k \in 1..Len(calls) : calls[k].pc = "ensure"}

\* a call of parseGoFile(filePath): the code up to the first await.  The
\* fields afterClear and dupOf record what had happened before the call:
\* whether the last operation was clearCache(filePath) ("file") or
\* clearCache() ("all"), and the runs under way for filePath.
ParseGoFile(filePath) ==
    LET now == clock
        look == Lookup(This, filePath, now)
        hit == look.from # "none"
        packagePath == GetPackagePath(filePath)
        call == [file |-> filePath, now |-> now,
                 pc |-> IF hit THEN "done" ELSE "ensure",
                 settled |-> IF hit THEN "resolved" ELSE "pending",
                 result |-> look.result, from |-> look.from, run |-> 0,
                 started |-> 0,
                 afterClear |-> IF lastOp.op # "clear" THEN "no"
                                ELSE IF lastOp.file = filePath THEN "file"
                                ELSE IF lastOp.file = NoPath THEN "all"
                                ELSE "no",
                 dupOf |-> AwaitingExec(filePath)]
    IN  /\ hit \/ (Len(calls) < MaxInFlight
                   /\ runs + Cardinality(AwaitingEnsure) < MaxRuns)
        /\ SetThis(look.this)
        /\ IF hit THEN returned' = [call EXCEPT !.now = 0] /\ calls' = calls
                  ELSE returned' = NoCall /\ calls' = Append(calls, call)
        /\ lastOp' = [op |-> "other", file |-> NoPath]
        /\ UNCHANGED <<clock, isParserReady, runs, lastStore, awaitedAtClear, resolver>>

\* the call resumes after  await this.ensureParserReady()  and runs to the
\* next await or to its return
ResumeAfterEnsure(k) ==
    /\ calls[k].pc = "ensure"
    /\ \E env \in EnsureEnv, fileExists \in BOOLEAN :
          LET ready == EnsureParserReady(isParserReady, env)
          IN  /\ isParserReady' = ready.isParserReady
              /\ IF ready.returns /\ fileExists
                 THEN /\ runs' = runs + 1
                      /\ calls' = [calls EXCEPT ![k].pc = "exec", ![k].run = runs + 1,
                                                ![k].started = clock]
                      /\ returned' = NoCall
                 ELSE LET end == OnNotReady(ready.returns, fileExists)
                      IN  /\ runs' = runs
                          /\ calls' = RemoveAt(calls, k)
                          /\ returned' = [calls[k] EXCEPT !.pc = "done",
                                                          !.now = 0,
                                                          !.settled = end.settled,
                                                          !.result = end.value,
                                                          !.from = end.from]
    /\ lastOp' = [op |-> "other", file |-> NoPath]
    /\ UNCHANGED <<clock, parseCache, cacheTimes, fileCache, fileCacheTimes,
                   packageCache, lastStore, awaitedAtClear, resolver>>

\* the call resumes after  await execFile(...)  and runs to its return
ResumeAfterExec(k) ==
    /\ calls[k].pc = "exec"
    /\ \E out \in ExecOutcomes(calls[k].file) :
          LET call == calls[k]
              cacheKey == GetPackagePath(call.file)
              end == AfterExec(out, call.run, call.started)
          IN  /\ calls' = RemoveAt(calls, k)
              /\ returned' = [call EXCEPT !.pc = "done",
                                          !.now = 0, !.started = 0,
                                          !.settled = end.settled,
                                          !.result = end.value,
                                          !.from = end.from]
              /\ IF end.store
                 THEN /\ SetThis(Store(This, call.file, cacheKey, call.now, end.value))
                      /\ lastStore' = MapPut(lastStore, cacheKey,
                                             [run |-> call.run, at |-> call.now,
                                              file |-> call.file])
                 ELSE UNCHANGED <<parseCache, cacheTimes, fileCache, fileCacheTimes,
                                  packageCache, lastStore>>
    /\ lastOp' = [op |-> "other", file |-> NoPath]
    /\ UNCHANGED <<clock, isParserReady, runs, awaitedAtClear, resolver>>

\* clearCache(filePath), clearCache()
ClearCache(filePath) ==
    /\ SetThis(ClearCacheOf(This, filePath))
    /\ lastOp' = [op |-> "clear", file |-> filePath]
    /\ lastStore' = IF filePath # NoPath
                    THEN MapDelete(lastStore, GetPackagePath(filePath))
                    ELSE EmptyMap
    /\ awaitedAtClear' =
          IF filePath # NoPath
          THEN MapPut(awaitedAtClear, GetPackagePath(filePath),
                      AwaitingExecIn(GetPackagePath(filePath)))
          ELSE [d \in PackagePaths |-> AwaitingExecIn(d)]
    /\ returned' = NoCall
    /\ UNCHANGED <<clock, isParserReady, calls, runs, resolver>>

\* time passes
Tick ==
    /\ \E later \in Instants : later > clock /\ clock' = later
    /\ returned' = NoCall
    /\ UNCHANGED <<isParserReady, parseCache, cacheTimes, fileCache, fileCacheTimes,
                   packageCache, calls, runs, lastOp, lastStore, awaitedAtClear,
                   resolver>>

CacheNext ==
    \/ \E filePath \in Files : ParseGoFile(filePath)
    \/ \E k \in 1..Len(calls) : ResumeAfterEnsure(k)
    \/ \E k \in 1..Len(calls) : ResumeAfterExec(k)
    \/ \E filePath \in Files \cup {NoPath} : ClearCache(filePath)
    \/ Tick

CacheSpec == CacheInit /\ [][CacheNext]_vars

(***************************************************************************)
(* Vocabulary of the properties                                            *)
(***************************************************************************)
Returned == pc = "done"

Entries == structsMap.entries

\* the satisfying set of interface i
Rel(i) == IF i \in DOMAIN interfaceImplementations
          THEN interfaceImplementations[i] ELSE {}

\* struct s carries an explicit declaration for interface i
DeclaredFor(s, i) ==
    \E k \in 1..Len(Entries) :
        Entries[k].name = s /\ i \in Range(Entries[k].implementsInterfaces)

\* the types of the embedded fields of the structsMap entry k
EmbeddedTypesOf(k) ==
    {f.type : f \in {g \in Range(Entries[k].fields) : g.embedded}}

\* the types of the embedded fields of struct s
EmbeddedTypes(s) ==
    UNION {EmbeddedTypesOf(k) : k \in {j \in 1..Len(Entries) : Entries[j].name = s}}

\* the match rate of the effective method set of s against interface i
EffectiveRate(i, s) ==
    ImplementationRate(interfaceMethodsMap[i], AllStructMethods(structMethodsMap, s))

\* the relation after explicit declarations and method matching
BaseLocals ==
    MatchStep(IF structsMap.defined
              THEN ExplicitStep([ii |-> {}, im |-> EmptyMap, hn |-> TRUE],
                                interfaceMethodsMap, Entries)
              ELSE [ii |-> {}, im |-> EmptyMap, hn |-> TRUE],
              interfaceMethodsMap, structMethodsMap)

BaseRel(i) == IF i \in DOMAIN BaseLocals.im THEN BaseLocals.im[i] ELSE {}

(***************************************************************************)
(* C1  Full-match property: when the resolver returns, every receiver type *)
(* s of structMethodsMap whose methods (marker keys apart) include every   *)
(* method of an interface i that has at least one method is in i's         *)
(* satisfying set, and i is in the returned set - also when another struct *)
(* carries an explicit declaration for i.  Receiver keys of the reserved   *)
(* marker form __x__ are left out of the statement.                        *)
(* The resolver skips an interface that already has an implementer, so     *)
(* TLC finds this violated.                                                *)
(***************************************************************************)
ReservedName(s) == StartsWith(s, UU) /\ EndsWith(s, UU)

FullMatchProperty ==
    Returned =>
        \A i \in DOMAIN interfaceMethodsMap : \A s \in DOMAIN structMethodsMap :
            ( /\ Len(interfaceMethodsMap[i]) >= 1
              /\ ~ReservedName(s)
              /\ Range(interfaceMethodsMap[i])
                     \subseteq StructMethodNames(structMethodsMap[s]) )
            => (s \in Rel(i) /\ i \in implementedInterfaces)

(***************************************************************************)
(* C2  Soundness: in every state every edge (i, s) of the relation is      *)
(* justified: by an explicit declaration of s for i, by a match rate of    *)
(* the methods of s against i of at least 0.8 with i having a method, or   *)
(* by an embedded field of s whose type is justified for i or is named i.  *)
(* JustifiedEdges is the least such set, so a named field, or a rate of    *)
(* 0.5 without declaration and embedding, justifies nothing.               *)
(***************************************************************************)
StructNames ==
    DOMAIN structMethodsMap \cup PointerReceivers(structMethodsMap)
    \cup {Entries[k].name : k \in 1..Len(Entries)}

DirectlyJustified ==
    {p \in (DOMAIN interfaceMethodsMap) \X StructNames :
        \/ DeclaredFor(p[2], p[1])
        \/ /\ Len(interfaceMethodsMap[p[1]]) >= 1
           /\ HighMatch(EffectiveRate(p[1], p[2]))}

EmbeddingJustified(J) ==
    J \cup {p \in (DOMAIN interfaceMethodsMap) \X StructNames :
               \E t \in EmbeddedTypes(p[2]) : <<p[1], t>> \in J \/ t = p[1]}

RECURSIVE JustifiedUpTo(_, _)
JustifiedUpTo(J, n) == IF n = 0 THEN J ELSE JustifiedUpTo(EmbeddingJustified(J), n - 1)

JustifiedEdges == JustifiedUpTo(DirectlyJustified, Len(Entries) + 1)

SoundEdges ==
    \A i \in DOMAIN interfaceImplementations :
        \A s \in interfaceImplementations[i] : <<i, s>> \in JustifiedEdges

\* the resolver has returned an edge that only an embedded field justifies,
\* and has kept out a struct with half of an interface's methods
SoundEdgesWitness ==
    /\ Returned
    /\ \E i \in DOMAIN interfaceMethodsMap : \E s \in Rel(i) :
           <<i, s>> \notin DirectlyJustified
    /\ \E i \in DOMAIN interfaceMethodsMap : \E s \in DOMAIN structMethodsMap :
           /\ Len(interfaceMethodsMap[i]) = 2
           /\ EffectiveRate(i, s) = <<1, 2>>
           /\ ~DeclaredFor(s, i) /\ EmbeddedTypes(s) = {}
           /\ s \notin Rel(i)

(***************************************************************************)
(* C3  Partial matches.  As claimed: a struct s with 0.8 <= rate < 1       *)
(* against i, with no declaration and no embedding in the input, is in     *)
(* i's satisfying set and i is returned (PartialMatchAccepted, violated).  *)
(* As amended: such a struct is not in i's satisfying set; only a rate of  *)
(* exactly 1 is accepted by method matching (PartialMatchRejected).        *)
(***************************************************************************)
PartialRate(i, s) ==
    /\ Len(interfaceMethodsMap[i]) >= 1
    /\ 5 * EffectiveRate(i, s)[1] >= 4 * EffectiveRate(i, s)[2]
    /\ EffectiveRate(i, s)[1] < EffectiveRate(i, s)[2]

NoDeclarations ==
    \A k \in 1..Len(Entries) : Entries[k].implementsInterfaces = <<>>

NoEmbedding == \A k \in 1..Len(Entries) : EmbeddedTypesOf(k) = {}

ZeroMethod(i) == i \in DOMAIN interfaceMethodsMap /\ Len(interfaceMethodsMap[i]) = 0

ZeroMethodOnlyDeclared ==
    \A i \in implementedInterfaces :
        ZeroMethod(i) => \E s \in StructNames : DeclaredFor(s, i)

ZeroMethodUntouched ==
    pc \in {"match", "pointer"} =>
        \A i \in DOMAIN interfaceMethodsMap : ZeroMethod(i) => Rel(i)' = Rel(i)

ZeroMethodNeverAuto == []ZeroMethodOnlyDeclared /\ [][ZeroMethodUntouched]_vars

\* the resolver has returned without an interface that has no methods,
\* although a receiver type with methods was there to be matched
ZeroMethodWitness ==
    /\ Returned
    /\ \E i \in DOMAIN interfaceMethodsMap :
           /\ ZeroMethod(i)
           /\ i \notin implementedInterfaces
           /\ \E s \in DOMAIN structMethodsMap :
                  StructMethodNames(structMethodsMap[s]) # {}

(***************************************************************************)
(* C5  Explicit declarations: once the declaration step has run, every     *)
(* struct of structsMap that declares an interface i of                    *)
(* interfaceMethodsMap is in i's satisfying set and i is in the returned   *)
(* set, whatever methods the struct has; a declared name that is not an    *)
(* interface of interfaceMethodsMap has no entry in the relation and is    *)
(* not returned.                                                           *)
(***************************************************************************)
ExplicitPrecedence ==
    pc \in {"match", "closure", "pointer", "done"} =>
        \A k \in 1..Len(Entries) :
            \A i \in Range(Entries[k].implementsInterfaces) :
                IF i \in DOMAIN interfaceMethodsMap
                THEN Entries[k].name \in Rel(i) /\ i \in implementedInterfaces
                ELSE i \notin DOMAIN interfaceImplementations
                     /\ i \notin implementedInterfaces

\* returned with a declared struct that has none of the interface's methods,
\* and with a declaration that names an unknown interface
ExplicitPrecedenceWitness ==
    /\ Returned
    /\ \E k \in 1..Len(Entries) :
           \E i \in Range(Entries[k].implementsInterfaces) :
               /\ i \in DOMAIN interfaceMethodsMap
               /\ Len(interfaceMethodsMap[i]) >= 1
               /\ EffectiveRate(i, Entries[k].name)[1] = 0
               /\ Entries[k].name \in Rel(i)
    /\ \E k \in 1..Len(Entries) :
           \E i \in Range(Entries[k].implementsInterfaces) :
               i \notin DOMAIN interfaceMethodsMap

(***************************************************************************)
(* C6  End-to-end declaration: for a parsed package whose source holds     *)
(* the comment `// ensure S implements I`, with struct S and interface I   *)
(* declared in the package, I is in the set the resolver returns.          *)
(* No stage of the pipeline reads the comment, so TLC finds this violated. *)
(***************************************************************************)
SourceComments ==
    UNION {Range(source[f].comments) : f \in {g \in 1..Len(source) : source[g].parses}}

SourceTypeNames(kind) ==
    UNION { {td.name : td \in {u \in Range(source[f].types) : u.kind = kind}} :
            f \in {g \in 1..Len(source) : source[g].parses} }

EndToEndDeclaration ==
    (Returned /\ source # <<>>) =>
        \A c \in SourceComments :
            (c.struct \in SourceTypeNames("struct")
             /\ c.iface \in SourceTypeNames("interface"))
            => c.iface \in implementedInterfaces

(***************************************************************************)
(* C7  Embedding closure, struct case: from the end of the first closure   *)
(* pass on, every struct of structsMap with an embedded field whose type   *)
(* is in the satisfying set of i after explicit declarations and method    *)
(* matching is itself in i's satisfying set.                               *)
(***************************************************************************)
AfterFirstPass ==
    /\ structsMap.defined
    /\ \/ pc = "closure" /\ iterations >= 1
       \/ pc \in {"pointer", "done"}

EmbeddingStructCase ==
    AfterFirstPass =>
        \A k \in 1..Len(Entries) : \A t \in EmbeddedTypesOf(k) :
            \A i \in DOMAIN interfaceMethodsMap :
                t \in BaseRel(i) => Entries[k].name \in Rel(i)

\* the first closure pass has just put a wrapper into the satisfying set of
\* an interface that the embedded struct satisfied before the pass
EmbeddingStructWitness ==
    /\ pc = "closure" /\ iterations = 1
    /\ \E k \in 1..Len(Entries) : \E t \in EmbeddedTypesOf(k) :
           \E i \in DOMAIN interfaceMethodsMap :
               /\ t \in BaseRel(i)
               /\ Entries[k].name \notin BaseRel(i)
               /\ Entries[k].name \in Rel(i)

(***************************************************************************)
(* C8  Embedding closure, interface case: when the resolver returns,       *)
(* every struct of structsMap with an embedded field whose type name is    *)
(* an interface i of interfaceMethodsMap is in i's satisfying set and i    *)
(* is returned - also when no other struct satisfies i.                    *)
(* The closure only visits interfaces that already have an implementer,    *)
(* so TLC finds this violated.                                             *)
(***************************************************************************)
EmbeddedInterfaceCase ==
    (Returned /\ structsMap.defined) =>
        \A k \in 1..Len(Entries) : \A t \in EmbeddedTypesOf(k) :
            t \in DOMAIN interfaceMethodsMap
            => (Entries[k].name \in Rel(t) /\ t \in implementedInterfaces)

(***************************************************************************)
(* C9  Closed under embedding at return: there is no struct w of           *)
(* structsMap with an embedded field of type t such that t is in i's       *)
(* satisfying set and w is not.                                            *)
(* The pointer-receiver step adds edges after the closure has run, and the *)
(* closure stops after maxIterations passes, so TLC finds this violated.   *)
(***************************************************************************)
ClosedUnderEmbedding ==
    Returned =>
        \A k \in 1..Len(Entries) : \A t \in EmbeddedTypesOf(k) :
            \A i \in DOMAIN interfaceImplementations :
                t \in interfaceImplementations[i]
                => Entries[k].name \in interfaceImplementations[i]

(***************************************************************************)
(* C10  Monotonic passes: no step of the resolver removes an edge or a     *)
(* member of the returned set, and when the closure loop has ended         *)
(* because a pass added nothing, one more closure pass over that state     *)
(* adds nothing.                                                           *)
(***************************************************************************)
NothingRemoved ==
    /\ implementedInterfaces \subseteq implementedInterfaces'
    /\ \A i \in DOMAIN interfaceImplementations :
           /\ i \in DOMAIN interfaceImplementations'
           /\ interfaceImplementations[i] \subseteq interfaceImplementations'[i]

ConvergedIsFixedPoint ==
    (pc = "pointer" /\ structsMap.defined /\ ~hasNewImplementation) =>
        LET again == ClosurePassOf(Locals, Entries)
        IN  again.im = interfaceImplementations /\ again.ii = implementedInterfaces

MonotonicPasses == [][NothingRemoved]_vars /\ []ConvergedIsFixedPoint

\* returned after a closure that added edges in its first pass and then
\* ended on a pass that added nothing
MonotonicPassesWitness ==
    /\ Returned
    /\ iterations >= 2 /\ ~hasNewImplementation
    /\ \E i \in DOMAIN interfaceImplementations :
           interfaceImplementations[i] # BaseRel(i)

(***************************************************************************)
(* C11  Termination of the embedding closure: for every input, cycles in   *)
(* the embedding graph included (A embeds B and B embeds A, A embeds A),   *)
(* the loop performs at most maxIterations = 5 passes and the resolver     *)
(* then returns.                                                           *)
(***************************************************************************)
\* the types reached from the set S through at most n embedded fields
RECURSIVE EmbeddingReach(_, _)
EmbeddingReach(S, n) ==
    IF n = 0 THEN S ELSE EmbeddingReach(S \cup UNION {EmbeddedTypes(x) : x \in S}, n - 1)

\* struct s reaches itself through embedded fields
OnEmbeddingCycle(s) ==
    s \in EmbeddingReach(EmbeddedTypes(s), Len(Entries))

AtMostMaxPasses == iterations <= 5

\* the number of steps the call can still take: the stages after the
\* current one, and in the loop the passes the cap still allows
StepsLeft ==
    CASE pc = "extract"  -> 10
      [] pc = "explicit" -> 9
      [] pc = "match"    -> 8
      [] pc = "closure"  -> 7 - iterations
      [] pc = "pointer"  -> 1
      [] pc = "done"     -> 0

\* the call is at a step whose condition holds
CanStep ==
    \/ pc \in {"extract", "explicit", "match", "pointer"}
    \/ pc = "closure" /\ LoopCondition(hasNewImplementation, iterations)
    \/ pc = "closure" /\ ~LoopCondition(hasNewImplementation, iterations)

RECURSIVE ClosureLoop(_, _, _)
ClosureLoop(st, entries, it) ==
    IF LoopCondition(st.hn, it)
    THEN ClosureLoop(ClosurePassOf(st, entries), entries, it + 1)
    ELSE st

\* the whole resolver as a function of its arguments
CheckInterfaceImplementations(imm, smm, structs) ==
    LET s0 == [ii |-> {}, im |-> EmptyMap, hn |-> TRUE]
        s1 == IF structs.defined THEN ExplicitStep(s0, imm, structs.entries) ELSE s0
        s2 == MatchStep(s1, imm, smm)
        s3 == IF structs.defined THEN ClosureLoop(s2, structs.entries, 0) ELSE s2
    IN  PointerStep(s3, imm, smm)

\* the file with every pointer receiver rewritten to a value receiver
ValueReceivers(file) ==
    [file EXCEPT !.funcs =
        [k \in 1..Len(file.funcs) |->
            IF file.funcs[k].hasRecv /\ file.funcs[k].recv.kind = "StarIdent"
            THEN [file.funcs[k] EXCEPT !.recv = Ident(file.funcs[k].recv.name)]
            ELSE file.funcs[k]]]

ValueTwin == [k \in 1..Len(source) |-> ValueReceivers(source[k])]

HasPointerReceiver ==
    \E k \in 1..Len(source) : \E j \in 1..Len(source[k].funcs) :
        source[k].funcs[j].hasRecv /\ source[k].funcs[j].recv.kind = "StarIdent"

\* the rate of the methods under key s against interface i, 0 of n for a
\* key that is absent
RateIn(imm, smm, i, s) ==
    ImplementationRate(imm[i], IF s \in DOMAIN smm THEN StructMethodNames(smm[s]) ELSE {})

ReceiverUnification ==
    (source # <<>> /\ pc # "extract") =>
        LET twin == ParseDirectory(ValueTwin)
            imm2 == GetInterfaceMethods(twin)
            smm2 == GetImplementations(twin)
            res2 == CheckInterfaceImplementations(imm2, smm2, GetStructsInfo(twin))
        IN  /\ DOMAIN structMethodsMap = DOMAIN smm2
            /\ interfaceMethodsMap = imm2
            /\ \A i \in DOMAIN imm2 : \A s \in DOMAIN smm2 \cup DOMAIN structMethodsMap :
                   RateIn(interfaceMethodsMap, structMethodsMap, i, s) = RateIn(imm2, smm2, i, s)
            /\ Returned => /\ interfaceImplementations = res2.im
                           /\ implementedInterfaces = res2.ii

\* a package whose struct F satisfies I through pointer receivers
ReceiverUnificationWitness ==
    /\ Returned
    /\ source # <<>>
    /\ HasPointerReceiver
    /\ StructF \in Rel(IfaceI)

(***************************************************************************)
(* Vocabulary of the cache properties                                      *)
(***************************************************************************)
\* a call has just returned
HasReturned == returned.pc = "done"

\* the call that has just returned was answered by a cache tier
FromCache == returned.from \in {"file", "package"}

\* the last operation was clearCache(f) on a file, clearCache()
JustCleared(f) == lastOp.op = "clear" /\ lastOp.file = f

\* the call that has just returned was made right after clearCache(f) on
\* its own file ("file"), right after clearCache() ("all")
CalledAfterClear(scope) == returned.afterClear = scope

NoEntryFor(f) ==
    /\ f \notin DOMAIN fileCache
    /\ f \notin DOMAIN fileCacheTimes
    /\ GetPackagePath(f) \notin DOMAIN parseCache
    /\ GetPackagePath(f) \notin DOMAIN cacheTimes

(***************************************************************************)
(* C13  Invalidation of one file: after clearCache(f), f has no entry in   *)
(* the file tier and dirname(f) none in the package tier, and the next     *)
(* parseGoFile(f), with no other call and no resumption of a call in       *)
(* between, invokes the extractor instead of returning a cached result.    *)
(* ClearedFileRecomputes is the statement as claimed; ClearedFileMisses is *)
(* what holds: the call is never answered from a cache, and it starts an   *)
(* extractor run unless it returns {packages: {}} because the parser is    *)
(* not ready or the file does not exist.                                   *)
(***************************************************************************)
ClearedFileHasNoEntry == \A f \in Files : JustCleared(f) => NoEntryFor(f)

FreshInFileTier(g) == FileTierHit(This, g, clock)

TiersConsistent ==
    \A g \in Files :
        FreshInFileTier(g) =>
            /\ GetPackagePath(g) \in DOMAIN parseCache
            /\ parseCache[GetPackagePath(g)] = fileCache[g]

InvalidationKeepsTiersConsistent == lastOp.op = "clear" => TiersConsistent

(***************************************************************************)
(* C15  Bounded staleness: no result that parseGoFile returns from a cache *)
(* tier is older, counted from the start of the extractor run that printed *)
(* it, than the package tier's time-to-live of 300 000 ms; and a file-tier *)
(* entry written by the parse itself is served for less than 30 000 ms.    *)
(***************************************************************************)
AgeOfReturned == clock - returned.result.started

BoundedStaleness ==
    (HasReturned /\ FromCache) =>
        /\ AgeOfReturned <= 300000
        /\ (returned.from = "file"
            /\ TimeOf(fileCacheTimes, returned.file) <= returned.result.started)
           => clock - TimeOf(fileCacheTimes, returned.file) < 30000

(***************************************************************************)
(* C16  Hits are shared per package: if a parseGoFile(f) stored a result   *)
(* with cache time t and no clearCache happened since, a parseGoFile(g)    *)
(* of any file g of the same directory called before t + 300 000 ms        *)
(* returns that result without starting the extractor, and parseGoFile(f)  *)
(* itself is answered by the file tier before t + 30 000 ms.               *)
(***************************************************************************)
\* the result a call of parseGoFile(g) is promised now
Promised(g) ==
    /\ GetPackagePath(g) \in DOMAIN lastStore
    /\ clock < lastStore[GetPackagePath(g)].at + 300000

PromiseKept(g) ==
    LET stored == lastStore[GetPackagePath(g)]
    IN  /\ returned'.pc = "done"
        /\ returned'.from \in {"file", "package"}
        /\ returned'.result.run = stored.run
        /\ runs' = runs
        /\ (g = stored.file /\ clock < stored.at + 30000) => returned'.from = "file"

HitsSharedPerPackage ==
    [][\A g \in Files : (ParseGoFile(g) /\ Promised(g)) => PromiseKept(g)]_vars

(***************************************************************************)
(* C17  clearCache() without argument clears everything: afterwards        *)
(* fileCache, fileCacheTimes, parseCache and cacheTimes are empty, and the *)
(* next parseGoFile of any file, with no other call and no resumption of a *)
(* call in between, invokes the extractor rather than returning a cached   *)
(* result.  ClearedAllRecomputes is the statement as claimed;              *)
(* ClearedAllMisses is what holds: the call is never answered from a       *)
(* cache, and it starts an extractor run unless it returns {packages: {}}  *)
(* because the parser is not ready or the file does not exist.             *)
(***************************************************************************)
ClearedAllIsEmpty ==
    JustCleared(NoPath) =>
        /\ fileCache = EmptyMap
        /\ fileCacheTimes = EmptyMap
        /\ parseCache = EmptyMap
        /\ cacheTimes = EmptyMap

FailureReturns == {"notReady", "noFile", "execError", "jsonError", "invalid"}

NeverRejects ==
    /\ returned.settled # "rejected"
    /\ \A k \in 1..Len(calls) : calls[k].settled = "pending"
    /\ HasReturned =>
          /\ returned.settled = "resolved"
          /\ returned.from \in FailureReturns => returned.result = EmptyResult
          /\ returned.from \in FailureReturns \cup {"parse", "file", "package"}

\* the parser process exited with an error
NeverRejectsWitness ==
    /\ HasReturned
    /\ returned.from = "execError"
    /\ returned.run # 0

(***************************************************************************)
(* C19  Duplicate concurrent requests are deduplicated by the cache: a     *)
(* parseGoFile(f) called while an earlier call for f is awaiting the       *)
(* extractor starts no extractor run of its own and returns the result of  *)
(* the run under way.                                                      *)
(***************************************************************************)
Deduplicated(call) ==
    call.dupOf # {} =>
        /\ call.run = 0
        /\ call.pc = "done" => call.result.run \in call.dupOf

DuplicatesDeduplicated ==
    /\ \A k \in 1..Len(calls) : Deduplicated(calls[k])
    /\ HasReturned => Deduplicated(returned)

(***************************************************************************)
(* C20  Invalidation wins over parses in flight: once clearCache has       *)
(* returned, no later parseGoFile call for a file of the invalidated       *)
(* package returns from a cache tier a result of an extractor run that had *)
(* started before that clearCache; checked for the runs that were still    *)
(* awaited at the moment of the invalidation and store their result after  *)
(* it.                                                                     *)
(***************************************************************************)
AwaitedAtClear(packagePath) ==
    IF packagePath \in DOMAIN awaitedAtClear THEN awaitedAtClear[packagePath] ELSE {}

InvalidationWins ==
    (HasReturned /\ FromCache) =>
        returned.result.run \notin AwaitedAtClear(GetPackagePath(returned.file))

(***************************************************************************)
(* C21  Failure isolation per file: a .go file of the scanned directory    *)
(* that fails to parse contributes nothing, every other file of the        *)
(* directory is processed, and parseDirectory returns without an error:    *)
(* the package of the directory holds exactly the facts of its files that  *)
(* parse, in the order of the files.                                       *)
(***************************************************************************)
\* the facts declared in the files that parse
RECURSIVE FactsOfParsing(_, _)
FactsOfParsing(pkgInfo, files) ==
    IF files = <<>> THEN pkgInfo
    ELSE FactsOfParsing(IF Head(files).parses
                        THEN InspectFuncs(InspectTypes(pkgInfo, Head(files).types),
                                          Head(files).funcs)
                        ELSE pkgInfo,
                        Tail(files))

SomeFileParses == \E k \in 1..Len(source) : source[k].parses

SomeFileFails == \E k \in 1..Len(source) : ~source[k].parses

Extracted == source # <<>> /\ pc # "extract"

FailureIsolation ==
    Extracted =>
        /\ parsed.err = "nil"
        /\ SomeFileParses =>
              /\ Dir \in DOMAIN parsed.packages
              /\ parsed.packages[Dir] = FactsOfParsing(EmptyPackageInfo, source)
        /\ ~SomeFileParses => Dir \notin DOMAIN parsed.packages

\* the first file fails with method declarations in it, the second is read
FailureIsolationWitness ==
    /\ Extracted
    /\ Len(source) = 2
    /\ ~source[1].parses /\ Len(source[1].funcs) = 2
    /\ source[2].parses
    /\ Len(parsed.packages[Dir].structs) = 3
    /\ parsed.packages[Dir].methods = <<>>

(***************************************************************************)
(* C22  Pointer-receiver candidates: for every receiver-type name N with   *)
(* methods under the key *N (and possibly under N), if the union of the    *)
(* method names under the two keys contains every method of a non-empty    *)
(* interface I, then at return N is in I's satisfying set and I is in the  *)
(* returned set.                                                           *)
(***************************************************************************)
Satisfies(n, i) ==
    /\ Len(interfaceMethodsMap[i]) > 0
    /\ Range(interfaceMethodsMap[i]) \subseteq AllStructMethods(structMethodsMap, n)

PointerCandidatesMatched ==
    Returned =>
        \A n \in PointerReceivers(structMethodsMap) :
            \A i \in DOMAIN interfaceMethodsMap :
                Satisfies(n, i) => (n \in Rel(i) /\ i \in implementedInterfaces)

(***************************************************************************)
(* C23  Ordering of matching and closure: an edge (I, N) that exists only  *)
(* because the method sets under the keys N and *N are united is available *)
(* to the embedding closure: at return a struct W with an embedded field   *)
(* of type N is in I's satisfying set.                                     *)
(***************************************************************************)
\* the methods under one key of structMethodsMap
MethodsUnder(key) ==
    IF key \in DOMAIN structMethodsMap
    THEN StructMethodNames(structMethodsMap[key]) ELSE {}

\* N has every method of I, but neither of its two keys has
ByUnionOnly(n, i) ==
    /\ Satisfies(n, i)
    /\ ~(Range(interfaceMethodsMap[i]) \subseteq MethodsUnder(n))
    /\ ~(Range(interfaceMethodsMap[i]) \subseteq MethodsUnder(STAR \o n))

UnionEdgeReachesClosure ==
    Returned =>
        \A k \in 1..Len(Entries) : \A n \in EmbeddedTypesOf(k) :
            \A i \in DOMAIN interfaceMethodsMap :
                (ByUnionOnly(n, i) /\ n \in Rel(i)) => Entries[k].name \in Rel(i)

(***************************************************************************)
(* C24  Marker filtering: the key __struct_def__ that getImplementations   *)
(* stores is never counted as an implemented method, and every real method *)
(* name of a receiver type is counted: without declarations, embedded      *)
(* fields and pointer keys, a receiver type is in I's satisfying set       *)
(* exactly if its keys other than the marker include every method of I.    *)
(***************************************************************************)
RealMethods(s) == structMethodsMap[s] \ {STRUCT_DEF}

HasEveryRealMethod(s, i) ==
    /\ Len(interfaceMethodsMap[i]) > 0
    /\ Range(interfaceMethodsMap[i]) \subseteq RealMethods(s)

PlainInput ==
    /\ NoDeclarations
    /\ NoEmbedding
    /\ PointerReceivers(structMethodsMap) = {}

MarkerFiltering ==
    (Returned /\ PlainInput) =>
        \A i \in DOMAIN interfaceMethodsMap :
            \A s \in {r \in DOMAIN structMethodsMap : ~ReservedName(r)} :
                s \in Rel(i) <=> HasEveryRealMethod(s, i)

(***************************************************************************)
(* C25  Interface method lists hold only directly declared methods: for an *)
(* interface whose body lists k named methods and embeds an interface E,   *)
(* the extractor emits exactly the k names in methods and E in             *)
(* internalType, getInterfaceMethods passes exactly the k names on, and    *)
(* the method matching credits exactly the receiver types that have the k  *)
(* direct methods.                                                         *)
(***************************************************************************)
\* the interface declarations of the files that parse
InterfaceDecls ==
    UNION { {td \in Range(source[f].types) : td.kind = "interface"} :
            f \in {g \in 1..Len(source) : source[g].parses} }

\* the named methods of an interface body, in order
RECURSIVE NamedMethods(_)
NamedMethods(elems) ==
    IF elems = <<>> THEN <<>> ELSE Head(elems).names \o NamedMethods(Tail(elems))

\* the interfaces an interface body embeds
EmbeddedInterfaces(elems) ==
    {elems[k].type.name : k \in {j \in 1..Len(elems) : elems[j].names = <<>>}}

EmittedAs(td, info) ==
    /\ info.name = td.name
    /\ info.methods = NamedMethods(td.elems)
    /\ IF EmbeddedInterfaces(td.elems) = {} THEN info.internalType = <<>>
       ELSE info.internalType \in EmbeddedInterfaces(td.elems)

\* the state after the method matching, before the first closure pass
MatchingDone == pc = "closure" /\ iterations = 0

DirectMethodsOnly ==
    (Extracted /\ SomeFileParses) =>
        \A td \in InterfaceDecls :
            /\ \E k \in 1..Len(parsed.packages[Dir].interfaces) :
                  EmittedAs(td, parsed.packages[Dir].interfaces[k])
            /\ td.name \in DOMAIN interfaceMethodsMap
            /\ interfaceMethodsMap[td.name] = NamedMethods(td.elems)
            /\ MatchingDone =>
                  Rel(td.name) = {s \in DOMAIN structMethodsMap :
                                    Range(NamedMethods(td.elems)) \subseteq MethodsUnder(s)}

\* I { a(); J; b() } with J { c() }: F has a and b only and is credited with I
DirectMethodsOnlyWitness ==
    /\ Returned
    /\ \E td \in InterfaceDecls : td.name = IfaceI /\ EmbeddedInterfaces(td.elems) = {IfaceJ}
    /\ interfaceMethodsMap[IfaceI] = <<Meth(1), Meth(2)>>
    /\ interfaceMethodsMap[IfaceJ] = <<Meth(3)>>
    /\ StructF \in Rel(IfaceI)
    /\ IfaceJ \notin implementedInterfaces

(***************************************************************************)
(* C26  Directory scoping: every package in the result of analyzeFile(p)   *)
(* is keyed by dirname(p) and holds facts only of the .go files directly   *)
(* inside dirname(p).                                                      *)
(***************************************************************************)
\* the type names and receiver types that the files of the analysed
\* directory declare
NamesInDirectory ==
    UNION { {td.name : td \in Range(source[f].types)}
            \cup {GetTypeNameFromExpr(fd.recv).name : fd \in Range(source[f].funcs)} :
            f \in 1..Len(source) }

NamesInPackage(pkgInfo) ==
    {x.name : x \in Range(pkgInfo.interfaces)}
    \cup {x.name : x \in Range(pkgInfo.structs)}
    \cup {x.receiverType : x \in Range(pkgInfo.methods)}

DirectoryScoping ==
    Extracted =>
        \A d \in DOMAIN parsed.packages :
            /\ d = Dirname(RequestedFile)
            /\ NamesInPackage(parsed.packages[d]) \subseteq NamesInDirectory

(***************************************************************************)
(* C27  The returned set and the relation agree and stay inside the        *)
(* interface map, at every point of checkInterfaceImplementations: I is in *)
(* implementedInterfaces exactly if interfaceImplementations[I] exists and *)
(* is not empty, and every such I is a key of interfaceMethodsMap.         *)
(***************************************************************************)
SetAndRelationAgree ==
    /\ \A i \in implementedInterfaces :
          i \in DOMAIN interfaceImplementations /\ interfaceImplementations[i] # {}
    /\ \A i \in DOMAIN interfaceImplementations :
          interfaceImplementations[i] # {} => i \in implementedInterfaces
    /\ implementedInterfaces \subseteq DOMAIN interfaceMethodsMap

\* a struct declares an interface that is no key of interfaceMethodsMap, and
\* the interface that is one gets its implementer by matching
SetAndRelationAgreeWitness ==
    /\ Returned
    /\ \E k \in 1..Len(Entries) : Entries[k].implementsInterfaces = <<IfaceK>>
    /\ IfaceK \notin DOMAIN interfaceImplementations
    /\ implementedInterfaces = {IfaceI}
    /\ Rel(IfaceI) = {StructA}

(***************************************************************************)
(* C28  The embedding closure never changes the returned value: no closure *)
(* pass changes implementedInterfaces, and when structsMap carries no      *)
(* declarations the function returns the set it returns for the same maps  *)
(* with every struct's fields removed.                                     *)
(***************************************************************************)
ClosureKeepsSet == pc = "closure" => implementedInterfaces' = implementedInterfaces

WithoutFields(structs) ==
    [structs EXCEPT !.entries =
        [k \in 1..Len(structs.entries) |-> [structs.entries[k] EXCEPT !.fields = <<>>]]]

SameSetWithoutFields ==
    (Returned /\ NoDeclarations) =>
        implementedInterfaces =
            CheckInterfaceImplementations(interfaceMethodsMap, structMethodsMap,
                                          WithoutFields(structsMap)).ii

CachedResultsNonEmpty ==
    /\ \A f \in DOMAIN fileCache : fileCache[f].packages # {}
    /\ \A d \in DOMAIN parseCache : parseCache[d].packages # {}

TiersUnchanged == UNCHANGED <<fileCache, fileCacheTimes, parseCache, cacheTimes>>

EmptyReturnIsFrame ==
    (returned'.pc = "done" /\ returned'.result.packages = {}) => TiersUnchanged

OnlyStoresChange ==
    ~TiersUnchanged =>
        \/ lastOp'.op = "clear"
        \/ returned'.pc = "done" /\ returned'.result.packages # {}

\* a call is answered by a tier only if the tier held a valid entry
MissRetries ==
    (returned'.pc = "done" /\ returned'.from \in {"file", "package"}) =>
        \/ FileTierHit(This, returned'.file, clock)
        \/ PackageTierHit(This, GetPackagePath(returned'.file), clock)

OnlyNonEmptyCached ==
    []CachedResultsNonEmpty /\ [][EmptyReturnIsFrame /\ OnlyStoresChange /\ MissRetries]_vars

\* the entry of a file has expired, the second extractor run prints a result
\* with no package, and the expired entry is still there
OnlyNonEmptyCachedWitness ==
    /\ HasReturned
    /\ returned.from = "parse"
    /\ returned.result.packages = {}
    /\ returned.run = 2
    /\ returned.file \in DOMAIN fileCache
    /\ fileCache[returned.file].run = 1

(***************************************************************************)
(* C30  Agreement of the two resolvers: for every input with no explicit   *)
(* declarations, no receiver key starting with * and no struct or method   *)
(* name starting with __ (the marker key aside), the set that              *)
(* GoAstParser.checkInterfaceImplementations returns equals the set that   *)
(* GoCodeParser.checkInterfaceImplementations returns for the same maps.   *)
(***************************************************************************)
AgreementInput ==
    /\ NoDeclarations
    /\ \A s \in DOMAIN structMethodsMap :
          /\ ~StartsWith(s, STAR)
          /\ ~StartsWith(s, UU)
          /\ \A m \in RealMethods(s) : ~StartsWith(m, UU)
    /\ \A i \in DOMAIN interfaceMethodsMap :
          \A k \in 1..Len(interfaceMethodsMap[i]) :
              ~StartsWith(interfaceMethodsMap[i][k], UU)

ResolversAgree ==
    (Returned /\ AgreementInput) =>
        implementedInterfaces = GoCodeParserCheck(interfaceMethodsMap, structMethodsMap)

\* I is satisfied by A, J has no method, B embeds A, and A's method map
\* carries the marker key
ResolversAgreeWitness ==
    /\ Returned
    /\ AgreementInput
    /\ implementedInterfaces = {IfaceI}
    /\ IfaceJ \in DOMAIN interfaceMethodsMap /\ interfaceMethodsMap[IfaceJ] = <<>>
    /\ StructA \in DOMAIN structMethodsMap /\ STRUCT_DEF \in structMethodsMap[StructA]
    /\ {StructA, StructB} \subseteq Rel(IfaceI)

=============================================================================
